---- MODULE Spec2Model ----
(***************************************************************************)
(* Model of the image-generation MCP server (mcp-server.ts): the startup   *)
(* credential check, the tools/list handler, the tools/call handler with   *)
(* its validation, its per-model options construction and its try/catch    *)
(* around the provider's generateImage, and the client of the integration  *)
(* test that numbers and sends the requests.                               *)
(***************************************************************************)
EXTENDS Integers, FiniteSets, Sequences, TLC

VARIABLES
    apiKey,     \* process.env.OPENAI_API_KEY
    process,    \* "starting", "ready" (server connected to the transport), "exited"
    nextId,     \* the client's requestId counter
    incoming,   \* the request at the head of the server's input stream, or NoMessage
    pending,    \* tools/call handlers suspended in `await generateImage(...)`, each
                \* with its args and the prompt, output and options it passed
    outbox      \* the responses written to the output stream

vars == <<apiKey, process, nextId, incoming, pending, outbox>>

(***************************************************************************)
(* Bounds of the model.                                                    *)
(***************************************************************************)
MaxRequests == 2    \* requests the client sends in one run
MaxExtra    == 1    \* optional fields present in one arguments object
MaxInFlight == 2    \* handlers suspended in generateImage at one time

(***************************************************************************)
(* JavaScript values: a value carries its type, `undefined` is a value.    *)
(***************************************************************************)
Undefined == [type |-> "undefined"]
Str(s)    == [type |-> "string", val |-> s]
Num(n)    == [type |-> "number", val |-> n]
Bool(b)   == [type |-> "boolean", val |-> b]

\* ToBoolean, as `!x` and `x || y` apply it
Truthy(v) ==
    CASE v.type = "undefined" -> FALSE
      [] v.type = "string"    -> v.val # ""
      [] v.type = "number"    -> v.val # 0
      [] v.type = "boolean"   -> v.val

\* a || b
OrElse(a, b) == IF Truthy(a) THEN a ELSE b

\* obj.f : undefined when the object has no such property
GetArg(args, f) == IF f \in DOMAIN args THEN args[f] ELSE Undefined

NoMessage == [method |-> "none"]

(***************************************************************************)
(* The tool descriptor of the ListToolsRequestSchema handler.              *)
(***************************************************************************)
SchemaProperties ==
    {"prompt", "output", "model", "n", "size", "quality", "style",
     "response_format", "background", "moderation", "output_compression",
     "output_format", "partial_images", "stream", "user"}

\* the tool names Test 2 of the integration test looks for in the list
expectedTools ==
    {"generate_image_gpt", "generate_image_gpt_mini",
     "generate_image_dalle3", "generate_image_dalle2"}

\* one descriptor per model, as the integration test expects
ListToolsHandlerPerModel ==
    [tools |-> << [name        |-> "generate_image_gpt",
                   inputSchema |-> [type       |-> "object",
                                    properties |-> SchemaProperties,
                                    required   |-> {"prompt", "output"}]],
                  [name        |-> "generate_image_dalle3",
                   inputSchema |-> [type       |-> "object",
                                    properties |-> SchemaProperties,
                                    required   |-> {"prompt", "output"}]] >>]

ListToolsHandler ==
    [tools |-> << [name        |-> "generate_image",
                   inputSchema |-> [type       |-> "object",
                                    properties |-> SchemaProperties,
                                    required   |-> {"prompt", "output"}]] >>]

(***************************************************************************)
(* The CallToolRequestSchema handler, up to its first await.               *)
(***************************************************************************)
McpError(code, message) == [class |-> "McpError", code |-> code, message |-> Str(message)]

\* reading a property of `undefined` (args.prompt when params.arguments is absent)
TypeError == [class |-> "TypeError", message |-> Str("Cannot read properties of undefined")]

\* the default taken from the wrong model
SelectedModelDefaultDalle3(args) == OrElse(GetArg(args, "model"), Str("dall-e-3"))

\* const model = args.model || 'dall-e-2'
SelectedModel(args) == OrElse(GetArg(args, "model"), Str("dall-e-2"))

\* n copied from the arguments in the dall-e-3 branch too
BuildOptionsCopiesN(args) ==
    IF SelectedModel(args) = Str("gpt-image-1")
    THEN [model              |-> Str("gpt-image-1"),
          n                  |-> GetArg(args, "n"),
          size               |-> GetArg(args, "size"),
          quality            |-> GetArg(args, "quality"),
          background         |-> GetArg(args, "background"),
          moderation         |-> GetArg(args, "moderation"),
          output_compression |-> GetArg(args, "output_compression"),
          output_format      |-> GetArg(args, "output_format"),
          partial_images     |-> GetArg(args, "partial_images"),
          stream             |-> GetArg(args, "stream"),
          user               |-> GetArg(args, "user")]
    ELSE IF SelectedModel(args) = Str("dall-e-3")
    THEN [model           |-> Str("dall-e-3"),
          n               |-> GetArg(args, "n"),
          size            |-> GetArg(args, "size"),
          quality         |-> GetArg(args, "quality"),
          style           |-> GetArg(args, "style"),
          response_format |-> GetArg(args, "response_format"),
          user            |-> GetArg(args, "user")]
    ELSE [model           |-> Str("dall-e-2"),
          n               |-> GetArg(args, "n"),
          size            |-> GetArg(args, "size"),
          response_format |-> GetArg(args, "response_format"),
          user            |-> GetArg(args, "user")]

\* the dall-e-2 branch pasted from the dall-e-3 branch, quality and style kept
BuildOptionsDalle2KeepsStyle(args) ==
    IF SelectedModel(args) = Str("gpt-image-1")
    THEN [model              |-> Str("gpt-image-1"),
          n                  |-> GetArg(args, "n"),
          size               |-> GetArg(args, "size"),
          quality            |-> GetArg(args, "quality"),
          background         |-> GetArg(args, "background"),
          moderation         |-> GetArg(args, "moderation"),
          output_compression |-> GetArg(args, "output_compression"),
          output_format      |-> GetArg(args, "output_format"),
          partial_images     |-> GetArg(args, "partial_images"),
          stream             |-> GetArg(args, "stream"),
          user               |-> GetArg(args, "user")]
    ELSE IF SelectedModel(args) = Str("dall-e-3")
    THEN [model           |-> Str("dall-e-3"),
          n               |-> Num(1),
          size            |-> GetArg(args, "size"),
          quality         |-> GetArg(args, "quality"),
          style           |-> GetArg(args, "style"),
          response_format |-> GetArg(args, "response_format"),
          user            |-> GetArg(args, "user")]
    ELSE [model           |-> Str("dall-e-2"),
          n               |-> GetArg(args, "n"),
          size            |-> GetArg(args, "size"),
          quality         |-> GetArg(args, "quality"),
          style           |-> GetArg(args, "style"),
          response_format |-> GetArg(args, "response_format"),
          user            |-> GetArg(args, "user")]

\* the options literal of the branch the model selects
BuildOptions(args) ==
    IF SelectedModel(args) = Str("gpt-image-1")
    THEN [model              |-> Str("gpt-image-1"),
          n                  |-> GetArg(args, "n"),
          size               |-> GetArg(args, "size"),
          quality            |-> GetArg(args, "quality"),
          background         |-> GetArg(args, "background"),
          moderation         |-> GetArg(args, "moderation"),
          output_compression |-> GetArg(args, "output_compression"),
          output_format      |-> GetArg(args, "output_format"),
          partial_images     |-> GetArg(args, "partial_images"),
          stream             |-> GetArg(args, "stream"),
          user               |-> GetArg(args, "user")]
    ELSE IF SelectedModel(args) = Str("dall-e-3")
    THEN [model           |-> Str("dall-e-3"),
          n               |-> Num(1),
          size            |-> GetArg(args, "size"),
          quality         |-> GetArg(args, "quality"),
          style           |-> GetArg(args, "style"),
          response_format |-> GetArg(args, "response_format"),
          user            |-> GetArg(args, "user")]
    ELSE [model           |-> Str("dall-e-2"),
          n               |-> GetArg(args, "n"),
          size            |-> GetArg(args, "size"),
          response_format |-> GetArg(args, "response_format"),
          user            |-> GetArg(args, "user")]

\* a prefix test in place of the comparison
UnknownToolByPrefix(params) == params.name \notin {"generate_image", "generate_image_gpt"}

\* request.params.name !== 'generate_image'
UnknownTool(params) == params.name # "generate_image"

\* a test for undefined only, which lets the empty string through
MissingOutputUndefinedOnly(args) == GetArg(args, "output") = Undefined

\* !args.prompt, !args.output
MissingPrompt(args) == ~Truthy(GetArg(args, "prompt"))
MissingOutput(args) == ~Truthy(GetArg(args, "output"))

\* the validation moved inside the try block, so that the catch block turns
\* its errors into results
CallToolHandlerCatchesAll(params) ==
    IF UnknownTool(params)
    THEN [kind |-> "throw",
          error |-> McpError("MethodNotFound", <<"Unknown tool: ", params.name>>)]
    ELSE IF ~params.hasArguments \/ MissingPrompt(params.arguments)
                                \/ MissingOutput(params.arguments)
    THEN [kind  |-> "return",
          value |-> [content |-> << [type |-> "text",
                                     text |-> << "Error generating image: ",
                                                 "Prompt is required" >>] >>,
                     isError |-> TRUE]]
    ELSE [kind    |-> "await",
          args    |-> params.arguments,
          prompt  |-> GetArg(params.arguments, "prompt"),
          output  |-> GetArg(params.arguments, "output"),
          options |-> BuildOptions(params.arguments)]

\* The handler from its entry to the point where it throws or suspends in
\* generateImage(args.prompt, args.output, options).
CallToolHandler(params) ==
    IF UnknownTool(params)
    THEN [kind |-> "throw",
          error |-> McpError("MethodNotFound", <<"Unknown tool: ", params.name>>)]
    ELSE IF ~params.hasArguments
    THEN [kind |-> "throw", error |-> TypeError]
    ELSE IF MissingPrompt(params.arguments)
    THEN [kind |-> "throw",
          error |-> McpError("InvalidParams", "Prompt is required")]
    ELSE IF MissingOutput(params.arguments)
    THEN [kind |-> "throw",
          error |-> McpError("InvalidParams", "Output file path is required")]
    ELSE [kind    |-> "await",
          args    |-> params.arguments,
          prompt  |-> GetArg(params.arguments, "prompt"),
          output  |-> GetArg(params.arguments, "output"),
          options |-> BuildOptions(params.arguments)]

\* the handler's continuation when generateImage returns `result`
OnFulfilled(result) ==
    [kind  |-> "return",
     value |-> [content |-> << [type |-> "text",
                                text |-> [success    |-> TRUE,
                                          savedFiles |-> result.savedFiles,
                                          response   |-> result.response]] >>]]

\* a catch block that ends the process, as the startup check does
OnRejectedExits(error) == [kind |-> "exit", error |-> error]

\* a catch block that logs and rethrows
OnRejectedRethrows(error) == [kind |-> "throw", error |-> error]

\* the catch block, entered when generateImage throws `error`
OnRejected(error) ==
    [kind  |-> "return",
     value |-> [content |-> << [type |-> "text",
                                text |-> << "Error generating image: ",
                                            OrElse(GetArg(error, "message"),
                                                   Str("Unknown error")).val >>] >>,
                isError |-> TRUE]]

(***************************************************************************)
(* The JSON-RPC envelope the protocol layer puts around a handler's        *)
(* outcome: a returned value is the result of the response, a thrown error *)
(* is its error, and both carry the id of the request.                     *)
(***************************************************************************)
ResultResponse(id, value) == [id |-> id, kind |-> "result", result |-> value]

ErrorResponse(id, error) ==
    [id    |-> id,
     kind  |-> "error",
     error |-> [code    |-> IF "code" \in DOMAIN error THEN error.code ELSE "InternalError",
                message |-> error.message]]

Respond(id, outcome) ==
    IF outcome.kind = "return"
    THEN ResultResponse(id, outcome.value)
    ELSE ErrorResponse(id, outcome.error)

\* What the process does with the outcome of a handler: the response is
\* written to the output stream; a handler that ends the process writes nothing.
Deliver(id, outcome) ==
    IF outcome.kind = "exit"
    THEN /\ process' = "exited"
         /\ outbox' = outbox
    ELSE /\ process' = process
         /\ outbox' = outbox \cup {Respond(id, outcome)}

(***************************************************************************)
(* The inputs: the credential, the requests a client can send, and what    *)
(* generateImage can return or throw.                                      *)
(***************************************************************************)
ApiKeys == {Undefined, Str("sk-test-api-key-for-integration-testing"), Str("test-api-key")}

ToolNames == {"generate_image", "generate_image_gpt"}

Prompts == {Undefined, Str(""), Str("A simple geometric shape")}
Outputs == {Undefined, Str(""), Str("test-outputs/test.png")}
Models  == {Undefined, Str("gpt-image-1"), Str("dall-e-3"), Str("dall-e-2"), Str("gpt-image-1-mini")}
NValues == {Num(1), Num(5), Num(10)}

OptionalFields == SchemaProperties \ {"prompt", "output", "model"}

SampleValue(f) ==
    CASE f = "size"               -> Str("1024x1024")
      [] f = "quality"            -> Str("low")
      [] f = "style"              -> Str("vivid")
      [] f = "response_format"    -> Str("b64_json")
      [] f = "background"         -> Str("transparent")
      [] f = "moderation"         -> Str("low")
      [] f = "output_compression" -> Num(80)
      [] f = "output_format"      -> Str("webp")
      [] f = "partial_images"     -> Num(2)
      [] f = "stream"             -> Bool(TRUE)
      [] f = "user"               -> Str("user-1")

\* the arguments object with the given prompt, output and model (each left
\* out when undefined), the optional fields of `extra`, and n = nv when n is one
MkArgs(p, o, m, extra, nv) ==
    LET dom == (IF p = Undefined THEN {} ELSE {"prompt"})
               \cup (IF o = Undefined THEN {} ELSE {"output"})
               \cup (IF m = Undefined THEN {} ELSE {"model"})
               \cup extra
    IN [f \in dom |-> CASE f = "prompt" -> p
                        [] f = "output" -> o
                        [] f = "model"  -> m
                        [] f = "n"      -> nv
                        [] OTHER        -> SampleValue(f)]

ArgumentObjects ==
    { MkArgs(p, o, m, extra, nv) :
        p \in Prompts, o \in Outputs, m \in Models,
        extra \in {S \in SUBSET OptionalFields : Cardinality(S) <= MaxExtra},
        nv \in NValues }

EmptyObject == MkArgs(Undefined, Undefined, Undefined, {}, Num(1))

\* createMCPRequest(method, params) of the client, with id = requestId
Requests(id) ==
    {[id |-> id, method |-> "tools/list"]}
    \cup {[id |-> id, method |-> "tools/call",
           params |-> [name |-> name, hasArguments |-> TRUE, arguments |-> args]] :
            name \in ToolNames, args \in ArgumentObjects}
    \cup {[id |-> id, method |-> "tools/call",
           params |-> [name |-> name, hasArguments |-> FALSE, arguments |-> EmptyObject]] :
            name \in ToolNames}

\* what generateImage resolves to: { savedFiles, response }
ProviderResults ==
    {[savedFiles |-> <<"test-outputs/test.png">>, response |-> "created"],
     [savedFiles |-> <<"test-outputs/test-1.png", "test-outputs/test-2.png">>,
      response |-> "created"]}

\* what generateImage throws: an Error, whose message may be empty
ProviderErrors ==
    {[class |-> "Error", message |-> Str("401 Incorrect API key provided")],
     [class |-> "Error", message |-> Str("ENOENT: no such file or directory")],
     [class |-> "Error", message |-> Str("")]}

(***************************************************************************)
(* The state machine.                                                      *)
(***************************************************************************)
Init ==
    /\ apiKey \in ApiKeys
    /\ process = "starting"
    /\ nextId = 1
    /\ incoming = NoMessage
    /\ pending = {}
    /\ outbox = {}

\* the credential check reduced to its warning: the server starts without a key
StartupWithoutExit ==
    /\ process = "starting"
    /\ process' = "ready"
    /\ UNCHANGED <<apiKey, nextId, incoming, pending, outbox>>

\* Module load: without OPENAI_API_KEY the process exits, otherwise (with a
\* warning when the key does not start with sk-) the server is constructed
\* and connected to the transport.
Startup ==
    /\ process = "starting"
    /\ process' = IF ~Truthy(apiKey) THEN "exited" ELSE "ready"
    /\ UNCHANGED <<apiKey, nextId, incoming, pending, outbox>>

\* The client writes its next request, numbered by requestId++.
Send ==
    /\ nextId <= MaxRequests
    /\ incoming = NoMessage
    /\ Cardinality(pending) < MaxInFlight
    /\ incoming' \in Requests(nextId)
    /\ nextId' = nextId + 1
    /\ UNCHANGED <<apiKey, process, pending, outbox>>

\* tools/list: the handler returns the descriptor list.
ListTools ==
    /\ process = "ready"
    /\ incoming.method = "tools/list"
    /\ Deliver(incoming.id, [kind |-> "return", value |-> ListToolsHandler])
    /\ incoming' = NoMessage
    /\ UNCHANGED <<apiKey, nextId, pending>>

\* the handler behind a lock: a call waits while another is in generateImage
CallToolOneAtATime ==
    /\ process = "ready"
    /\ incoming.method = "tools/call"
    /\ pending = {}
    /\ LET outcome == CallToolHandler(incoming.params) IN
         IF outcome.kind = "await"
         THEN /\ pending' = pending \cup {[id      |-> incoming.id,
                                          args    |-> outcome.args,
                                          prompt  |-> outcome.prompt,
                                          output  |-> outcome.output,
                                          options |-> outcome.options]}
              /\ UNCHANGED <<process, outbox>>
         ELSE /\ Deliver(incoming.id, outcome)
              /\ pending' = pending
    /\ incoming' = NoMessage
    /\ UNCHANGED <<apiKey, nextId>>

\* tools/call: the handler runs to its throw or to its await of generateImage.
CallTool ==
    /\ process = "ready"
    /\ incoming.method = "tools/call"
    /\ LET outcome == CallToolHandler(incoming.params) IN
         IF outcome.kind = "await"
         THEN /\ pending' = pending \cup {[id      |-> incoming.id,
                                          args    |-> outcome.args,
                                          prompt  |-> outcome.prompt,
                                          output  |-> outcome.output,
                                          options |-> outcome.options]}
              /\ UNCHANGED <<process, outbox>>
         ELSE /\ Deliver(incoming.id, outcome)
              /\ pending' = pending
    /\ incoming' = NoMessage
    /\ UNCHANGED <<apiKey, nextId>>

\* generateImage returns: the handler resumes after the await and returns.
GenerateImageReturns ==
    /\ process = "ready"
    /\ \E call \in pending, result \in ProviderResults :
         /\ pending' = pending \ {call}
         /\ Deliver(call.id, OnFulfilled(result))
    /\ UNCHANGED <<apiKey, nextId, incoming>>

\* generateImage throws: the handler resumes in its catch block.
GenerateImageThrows ==
    /\ process = "ready"
    /\ \E call \in pending, error \in ProviderErrors :
         /\ pending' = pending \ {call}
         /\ Deliver(call.id, OnRejected(error))
    /\ UNCHANGED <<apiKey, nextId, incoming>>

Next ==
    \/ Startup
    \/ Send
    \/ ListTools
    \/ CallTool
    \/ GenerateImageReturns
    \/ GenerateImageThrows

Spec == Init /\ [][Next]_vars

\* The requests of the integration test: tools/list, and calls that carry at
\* most prompt, output and model.
PlainRequests(id) ==
    {req \in Requests(id) :
        req.method = "tools/call" =>
            /\ DOMAIN req.params.arguments \subseteq {"prompt", "output", "model"}
            /\ GetArg(req.params.arguments, "model") \in {Undefined, Str("gpt-image-1")}}

\* The client writes its next request, one without optional fields.
SendPlain ==
    /\ nextId <= MaxRequests
    /\ incoming = NoMessage
    /\ Cardinality(pending) < MaxInFlight
    /\ incoming' \in PlainRequests(nextId)
    /\ nextId' = nextId + 1
    /\ UNCHANGED <<apiKey, process, pending, outbox>>

NextPlain ==
    \/ Startup
    \/ SendPlain
    \/ ListTools
    \/ CallTool
    \/ GenerateImageReturns
    \/ GenerateImageThrows

\* The event loop runs the handler of a request that has arrived, and a call
\* of generateImage ends: it returns or it throws.
FairSpec ==
    /\ Init
    /\ [][NextPlain]_vars
    /\ WF_vars(ListTools)
    /\ WF_vars(CallTool)
    /\ WF_vars(GenerateImageReturns \/ GenerateImageThrows)

(***************************************************************************)
(* Properties.                                                             *)
(***************************************************************************)
\* a step in which the handler of the request at the head of the input runs
ListStep == incoming.method = "tools/list" /\ process = "ready" /\ incoming' = NoMessage
CallStep == incoming.method = "tools/call" /\ process = "ready" /\ incoming' = NoMessage

IsListResult(r) == r.kind = "result" /\ "tools" \in DOMAIN r.result
IsErrorResult(r) ==
    /\ r.kind = "result"
    /\ "isError" \in DOMAIN r.result
    /\ r.result.isError = TRUE
IsSuccessResult(r) ==
    /\ r.kind = "result"
    /\ "content" \in DOMAIN r.result
    /\ "isError" \notin DOMAIN r.result

C2_ListContainsExpectedTools ==
    \A r \in outbox :
        IsListResult(r) =>
            \A expectedTool \in expectedTools :
                \E i \in 1..Len(r.result.tools) : r.result.tools[i].name = expectedTool

LacksRequired(params) ==
    \/ ~params.hasArguments
    \/ GetArg(params.arguments, "prompt") \in {Undefined, Str("")}
    \/ GetArg(params.arguments, "output") \in {Undefined, Str("")}

\* C4: a generate_image call whose prompt or output is missing or empty is
\* answered by a protocol-level error or by a result with isError true, never
\* by a success; generateImage is not called and the process stays ready.
C4_MissingRequiredRejected ==
    [][(CallStep /\ incoming.params.name = "generate_image" /\ LacksRequired(incoming.params)) =>
         /\ \E r \in outbox' :
               /\ outbox' = outbox \cup {r}
               /\ r \notin outbox
               /\ r.id = incoming.id
               /\ r.kind = "error" \/ IsErrorResult(r)
               /\ ~IsSuccessResult(r)
         /\ pending' = pending
         /\ process' = "ready"]_vars

\* a call without prompt and a call without output have both been rejected
C4_Witness ==
    /\ process = "ready"
    /\ \E r \in outbox :
          /\ r.kind = "error"
          /\ r.error.code = "InvalidParams"
          /\ r.error.message = Str("Prompt is required")
    /\ \E r \in outbox :
          /\ r.kind = "error"
          /\ r.error.code = "InvalidParams"
          /\ r.error.message = Str("Output file path is required")

\* a call that passes the validation of the handler
ValidCall(params) ==
    /\ params.name = "generate_image"
    /\ ~LacksRequired(params)

\* the handler of the valid call at the head of the input suspends in exactly
\* one call of generateImage, the call c, and answers nothing yet
PassedToProvider(c) ==
    /\ c.id = incoming.id
    /\ c \notin pending
    /\ pending' = pending \cup {c}
    /\ c.prompt = incoming.params.arguments.prompt
    /\ c.output = incoming.params.arguments.output
    /\ outbox' = outbox

\* C5: a valid call whose model is dall-e-3 passes options with n = 1 to
\* generateImage, whatever n the caller gave, or none.
C5_Dalle3ForcesN1 ==
    [][(CallStep /\ ValidCall(incoming.params)
            /\ GetArg(incoming.params.arguments, "model") = Str("dall-e-3")) =>
         \E c \in pending' :
            /\ PassedToProvider(c)
            /\ c.options.model = Str("dall-e-3")
            /\ c.options.n = Num(1)]_vars

\* a dall-e-3 call made with n = 5 is suspended in generateImage with n = 1
C5_Witness ==
    \E c \in pending :
        /\ GetArg(c.args, "model") = Str("dall-e-3")
        /\ GetArg(c.args, "n") = Num(5)
        /\ c.options.n = Num(1)

GptOnlyFields ==
    {"background", "moderation", "output_compression", "output_format",
     "partial_images", "stream"}

\* the fields the claim bars from a request of the given model
Inapplicable(model) ==
    CASE model = Str("gpt-image-1") -> {"style", "response_format"}
      [] model = Str("dall-e-3")    -> GptOnlyFields
      [] model = Str("dall-e-2")    -> GptOnlyFields \cup {"quality", "style"}

\* C6: whatever optional fields a valid call carries, it is passed to
\* generateImage without an error, and the options passed hold no field that
\* is inapplicable to their model: no style or response_format for
\* gpt-image-1, no gpt-image-1 field for dall-e-3 or dall-e-2, no quality or
\* style for dall-e-2.
C6_InapplicableFieldsDropped ==
    [][(CallStep /\ ValidCall(incoming.params)) =>
         \E c \in pending' :
            /\ PassedToProvider(c)
            /\ c.options.model \in {Str("gpt-image-1"), Str("dall-e-3"), Str("dall-e-2")}
            /\ DOMAIN c.options \cap Inapplicable(c.options.model) = {}]_vars

\* calls that carried an inapplicable field are suspended in generateImage
C6_Witness ==
    /\ \E c \in pending :
          /\ c.options.model = Str("dall-e-2")
          /\ "style" \in DOMAIN c.args
          /\ "style" \notin DOMAIN c.options
    /\ \E c \in pending :
          /\ c.options.model = Str("gpt-image-1")
          /\ "response_format" \in DOMAIN c.args
          /\ "response_format" \notin DOMAIN c.options

SupportedModels == {Str("gpt-image-1"), Str("dall-e-3"), Str("dall-e-2")}

\* C7: a generate_image call with non-empty prompt and output builds exactly
\* one options variant and passes it to generateImage without a parameter
\* error; its model tag is the model argument when that is a supported model
\* and dall-e-2 when there is no model argument.
C7_OneVariantByModel ==
    [][(CallStep /\ ValidCall(incoming.params)) =>
         \E c \in pending' :
            /\ PassedToProvider(c)
            /\ GetArg(incoming.params.arguments, "model") \in SupportedModels
                  => c.options.model = incoming.params.arguments.model
            /\ GetArg(incoming.params.arguments, "model") = Undefined
                  => c.options.model = Str("dall-e-2")]_vars

\* a call with only prompt, output and model, and one without model, are
\* suspended in generateImage
C7_Witness ==
    /\ \E c \in pending :
          /\ DOMAIN c.args = {"prompt", "output", "model"}
          /\ c.args.model = Str("gpt-image-1")
          /\ c.options.model = Str("gpt-image-1")
    /\ \E c \in pending :
          /\ DOMAIN c.args = {"prompt", "output"}
          /\ c.options.model = Str("dall-e-2")

\* the one response a step adds for the call c, which it takes out of pending
Answers(c, r) ==
    /\ c \in pending
    /\ pending' = pending \ {c}
    /\ r \notin outbox
    /\ outbox' = outbox \cup {r}
    /\ r.id = c.id
    /\ process' = "ready"

\* C8: when generateImage throws, the call is answered by a tool-call result
\* with isError true and a text message, never by a protocol-level error; when
\* it returns, the call is answered by a result without isError whose text
\* carries success and the savedFiles generateImage returned.
C8_ProviderOutcomeIsResult ==
    [][/\ GenerateImageThrows =>
            \E c \in pending, r \in outbox' :
               /\ Answers(c, r)
               /\ IsErrorResult(r)
               /\ Len(r.result.content) = 1
               /\ r.result.content[1].type = "text"
               /\ r.result.content[1].text[1] = "Error generating image: "
               /\ r.result.content[1].text[2] # ""
       /\ GenerateImageReturns =>
            \E c \in pending, r \in outbox' :
               /\ Answers(c, r)
               /\ IsSuccessResult(r)
               /\ r.result.content[1].text.success = TRUE
               /\ \E result \in ProviderResults :
                     r.result.content[1].text.savedFiles = result.savedFiles]_vars

\* a failed call and a successful call have both been answered
C8_Witness ==
    /\ \E r \in outbox : IsErrorResult(r) /\ r.result.content[1].text[2] = "Unknown error"
    /\ \E r \in outbox : IsSuccessResult(r)

\* C9 as stated: every per-request error of tools/call, a missing or empty
\* prompt or output and an unknown tool name included, is turned into a
\* tool-call result inside the handler, so that no tools/call is answered by
\* the error of an exception that left the handler.
C9_NoErrorLeavesHandler ==
    \A r \in outbox : r.kind # "error"

\* the code of the error with which the handler rejects a call before its try block
RejectionCode(params) ==
    IF params.name # "generate_image" THEN "MethodNotFound"
    ELSE IF ~params.hasArguments THEN "InternalError"
    ELSE "InvalidParams"

\* C9, amended: the errors generateImage raises are caught inside the handler
\* and turned into tool-call results; an unknown tool name and a missing or
\* empty prompt or output are thrown out of the handler, before its try
\* block, and answered by a protocol-level error (method not found, invalid
\* params, or an internal error when the request has no arguments at all),
\* not by a tool-call result; neither ends the process.
C9_OnlyValidationErrorsLeaveHandler ==
    [][/\ (CallStep /\ ~ValidCall(incoming.params)) =>
            /\ \E r \in outbox' :
                  /\ r \notin outbox
                  /\ outbox' = outbox \cup {r}
                  /\ r.id = incoming.id
                  /\ r.kind = "error"
                  /\ r.error.code = RejectionCode(incoming.params)
            /\ pending' = pending
            /\ process' = "ready"
       /\ (CallStep /\ ValidCall(incoming.params)) =>
            outbox' = outbox /\ process' = "ready"
       /\ (\E c \in pending : c \notin pending') =>
            \E c \in pending, r \in outbox' : Answers(c, r) /\ r.kind = "result"]_vars

\* a rejected call and a call that failed in generateImage have been answered,
\* the first by an error and the second by a result
C9_Witness ==
    /\ process = "ready"
    /\ \E r \in outbox : r.kind = "error" /\ r.error.code = "InvalidParams"
    /\ \E r \in outbox : IsErrorResult(r)

\* C10: a failed call leaves the server ready, and every request that reaches
\* the ready server, after failed and successful calls alike, is eventually
\* answered.
C10_ServesAfterFailure ==
    /\ []((\E r \in outbox : IsErrorResult(r)) => process = "ready")
    /\ \A id \in 1..MaxRequests :
          (process = "ready" /\ incoming # NoMessage /\ incoming.id = id)
              ~> (\E r \in outbox : r.id = id)

\* the first call failed in generateImage and the second request was answered
C10_Witness ==
    /\ process = "ready"
    /\ \E r \in outbox : r.id = 1 /\ IsErrorResult(r)
    /\ \E r \in outbox : r.id = 2 /\ (IsListResult(r) \/ IsSuccessResult(r))

\* C11: without OPENAI_API_KEY the process leaves its start by exiting, the
\* server is never ready and no request is ever handled or answered; with a
\* key, whether or not it starts with sk-, the server starts.
C11_MissingKeyIsFatal ==
    /\ [](apiKey = Undefined => (process # "ready" /\ pending = {} /\ outbox = {}))
    /\ [][(process = "starting" /\ process' # "starting") =>
            process' = IF apiKey = Undefined THEN "exited" ELSE "ready"]_vars
    /\ [][(apiKey = Undefined /\ incoming # NoMessage) => incoming' = incoming]_vars

\* the process has exited for lack of a key while a request waits unserved
C11_Witness ==
    /\ apiKey = Undefined
    /\ process = "exited"
    /\ incoming # NoMessage
    /\ outbox = {}

\* C12 as stated: at most one tools/call is being processed at any time, a
\* second call's generateImage does not start before the first has completed.
C12_OneCallAtATime ==
    Cardinality(pending) <= 1

\* C12, amended: tools/call is not limited to one at a time. A tools/call that
\* reaches the ready server while an earlier call is suspended in
\* generateImage is handled at once, and when it is valid its own
\* generateImage starts while the earlier call is still suspended, so that
\* two calls can be in generateImage together; a tools/list that arrives in
\* between is answered at once.
C12_CallsRunConcurrently ==
    /\ [](  (process = "ready" /\ pending # {} /\ incoming # NoMessage) =>
              /\ incoming.method = "tools/call" => ENABLED CallTool
              /\ incoming.method = "tools/list" => ENABLED ListTools)
    /\ [][(CallStep /\ ValidCall(incoming.params) /\ pending # {}) =>
            /\ pending \subseteq pending'
            /\ Cardinality(pending') = Cardinality(pending) + 1]_vars
    /\ [][(ListStep /\ pending # {}) =>
            /\ pending' = pending
            /\ \E r \in outbox' : r.id = incoming.id /\ IsListResult(r)]_vars

\* two calls are suspended in generateImage at the same time
C12_Witness ==
    /\ process = "ready"
    /\ \E c, d \in pending : c.id = 1 /\ d.id = 2

====
